---- MODULE Spec2Model ----
(***************************************************************************)
(* Model of pythonScript/stress_test_analysis.py: StressTestAnalyzer.      *)
(*   Spec      - analyze_file, one line of the log file at a time          *)
(*   SweepSpec - analyze_all_files over the grid of cell directories,      *)
(*               followed by calculate_aggregate_metrics                   *)
(***************************************************************************)
EXTENDS Integers, Sequences, FiniteSets, TLC

\* analyze_file: where it is, the lines read so far, the accumulator and
\* what the call handed back.
VARIABLES pc, read, metrics, result
\* analyze_all_files and calculate_aggregate_metrics: what the directory
\* tree has shown so far, where the loops are, the files of the current
\* cell still to analyse, self.results and the aggregate rows.
VARIABLES fsys, sweep_pc, ci, ai, todo, results, aggregate_results

scan_vars == <<pc, read, metrics, result>>
sweep_vars == <<fsys, sweep_pc, ci, ai, todo, results, aggregate_results>>
vars == <<scan_vars, sweep_vars>>

\* ------------------------------------------------------------------ bounds
MaxLines == 3
MaxTime == 3
MaxFiles == 2
MaxDirs == 3

\* ------------------------------------------------------- Python values
\* A JSON scalar as Python sees it: None (also what dict.get gives for a
\* missing key), an int or a str.
PyNone == [t |-> "none", i |-> 0, s |-> ""]
PyInt(n) == [t |-> "int", i |-> n, s |-> ""]
PyStr(x) == [t |-> "str", i |-> 0, s |-> x]

\* bool(v)
Truthy(v) == \/ v.t = "int" /\ v.i # 0
             \/ v.t = "str" /\ v.s # ""

\* a or b
PyOr(a, b) == IF Truthy(a) THEN a ELSE b

\* the text an f-string or str() gives for v
Fmt(v) == CASE v.t = "none" -> "None"
            [] v.t = "int" -> ToString(v.i)
            [] v.t = "str" -> v.s

\* defaultdict(int): d[k] += 1
EmptyMap == [k \in {} |-> 0]
Incr(d, k) == IF k \in DOMAIN d THEN [d EXCEPT ![k] = @ + 1] ELSE d @@ (k :> 1)

\* ------------------------------------------------------- event records
\* rec['agent']: a mapping with entity_id / name / role, or a bare identifier.
NoAgent == [form |-> "absent", name |-> PyNone, entity_id |-> PyNone, role |-> PyNone, bare |-> ""]
AgentDict(name, entity_id, role) ==
    [form |-> "dict", name |-> name, entity_id |-> entity_id, role |-> role, bare |-> ""]
AgentBare(x) == [NoAgent EXCEPT !.form = "str", !.bare = x]

\* rec['world_state']
NoWorld == [form |-> "absent", hasRescues |-> FALSE, rescues |-> 0, rdIsList |-> FALSE, rd |-> <<>>]
\* rec['parsed_response']: form "dict" is a mapping, "str" a JSON-encoded
\* mapping, "strbad" a string that is not JSON, "list" any other JSON value.
\* move: t "str" a location; t "dict" a mapping whose 'move' value is inner
\* and whose first value in iteration order is first.
NoMove == [t |-> "absent", s |-> "", inner |-> PyNone, first |-> PyNone]
NoComm == [t |-> "absent", targets |-> <<>>]
NoParsed == [form |-> "absent", move |-> NoMove, comm |-> NoComm]
\* rec['action_result']
NoResult == [form |-> "absent", success |-> FALSE, reason |-> ""]

Rec0 == [hasTime |-> FALSE, time |-> 0, ws |-> NoWorld, agent |-> NoAgent,
         hasCommand |-> FALSE, pr |-> NoParsed, ar |-> NoResult]

Bob == AgentDict(PyStr("bob"), PyNone, PyNone)
AgentZero == AgentDict(PyNone, PyInt(0), PyNone)
AgentOne == AgentDict(PyNone, PyInt(1), PyNone)
Scout == AgentDict(PyNone, PyNone, PyStr("scout"))

AgentFields == {Bob, AgentZero, AgentOne, AgentBare("r2")}

TimeRecs == {[Rec0 EXCEPT !.hasTime = TRUE, !.time = t] : t \in 0..MaxTime}
ActionRecs == {[Rec0 EXCEPT !.agent = a, !.hasCommand = TRUE] : a \in AgentFields}
HalfRecs == {[Rec0 EXCEPT !.agent = Bob], [Rec0 EXCEPT !.hasCommand = TRUE]}
WorldRecs ==
    {[Rec0 EXCEPT !.ws = [form |-> "dict", hasRescues |-> TRUE, rescues |-> 2,
                          rdIsList |-> TRUE, rd |-> <<"A", "B">>]],
     [Rec0 EXCEPT !.ws = [form |-> "dict", hasRescues |-> FALSE, rescues |-> 0,
                          rdIsList |-> TRUE, rd |-> <<"B", "C">>]]}
MoveRecs ==
    {[Rec0 EXCEPT !.agent = Bob,
                  !.pr = [NoParsed EXCEPT !.form = "str",
                                          !.move = [NoMove EXCEPT !.t = "str", !.s = "kitchen"]]],
     [Rec0 EXCEPT !.agent = AgentZero,
                  !.pr = [NoParsed EXCEPT !.form = "dict",
                                          !.move = [NoMove EXCEPT !.t = "dict",
                                                                  !.first = PyStr("hall")]]]}
\* parsed_response={"communicate":["r2"]}, agent={"role":"scout"}
CommRec == [Rec0 EXCEPT !.agent = Scout,
                        !.pr = [NoParsed EXCEPT !.form = "dict",
                                                !.comm = [t |-> "list", targets |-> <<"r2">>]]]
\* action_result={"success":true,"reason":"communicate ok"}
OutcomeRec == [Rec0 EXCEPT !.ar = [form |-> "dict", success |-> TRUE, reason |-> "communicate ok"]]

Records == TimeRecs \cup ActionRecs \cup HalfRecs \cup WorldRecs \cup MoveRecs
             \cup {CommRec, OutcomeRec}

\* A line of the file: its text is "" (empty), only whitespace, text that is
\* not JSON, or the JSON text of a record.
Line(kind, rec) == [kind |-> kind, rec |-> rec]
Lines == {Line("empty", Rec0), Line("space", Rec0), Line("malformed", Rec0)}
           \cup {Line("json", r) : r \in Records}

\* ------------------------------------------------------ analyze_file
\* The accumulator built at the top of analyze_file. It is a plain dict:
\* reading a key it does not hold raises KeyError.
Metrics0 ==
    [total_steps |-> 0,
     total_rescues |-> 0,
     unique_rooms_visited |-> {},
     agent_steps |-> EmptyMap,
     agent_visits |-> EmptyMap,
     victims_found |-> 0,
     simulation_completed |-> FALSE,
     final_time |-> 0,
     agent_actions |-> 0,
     total_communications |-> 0,
     communication_events |-> <<>>]

\* The outcome of a piece of the scan: the accumulator as it stands, and the
\* exception raised ("" when none).
Ok(m) == [m |-> m, exc |-> ""]
Raise(m, e) == [m |-> m, exc |-> e]

Max(a, b) == IF a >= b THEN a ELSE b

\* line = line.strip(): whitespace-only text becomes empty text
Strip(line) == IF line.kind = "space" THEN [line EXCEPT !.kind = "empty"] ELSE line

TimeTrackingLastWins(m, rec) ==
    IF rec.hasTime /\ rec.time > 0
    THEN [m EXCEPT !.final_time = rec.time, !.total_steps = rec.time]
    ELSE m

\* if 'time' in rec: ...
TimeTracking(m, rec) ==
    IF rec.hasTime /\ rec.time > 0
    THEN [m EXCEPT !.final_time = Max(m.final_time, rec.time),
                   !.total_steps = rec.time]
    ELSE m

\* if 'world_state' in rec: ...
WorldStateTracking(m, rec) ==
    IF rec.ws.form = "dict"
    THEN LET m1 == IF rec.ws.hasRescues
                   THEN [m EXCEPT !.total_rescues = rec.ws.rescues]
                   ELSE m
         IN  IF rec.ws.rdIsList
             THEN [m1 EXCEPT !.unique_rooms_visited =
                                 @ \cup {rec.ws.rd[j] : j \in 1..Len(rec.ws.rd)}]
             ELSE m1
    ELSE m

\* The identity of the acting agent; the same code resolves it for action
\* tracking and again for movement tracking.
AgentName(af) ==
    IF af.form = "dict"
    THEN LET agent_id == PyOr(af.entity_id, af.name)
         IN  Fmt(PyOr(af.name, PyStr("agent_" \o Fmt(agent_id))))
    ELSE af.bare

ActionTrackingCountsAgentOnly(m, rec) ==
    IF rec.agent.form # "absent"
    THEN [m EXCEPT !.agent_steps = Incr(@, AgentName(rec.agent)),
                   !.agent_actions = @ + 1]
    ELSE m

\* if 'agent' in rec and 'command' in rec: ...
ActionTracking(m, rec) ==
    IF rec.agent.form # "absent" /\ rec.hasCommand
    THEN [m EXCEPT !.agent_steps = Incr(@, AgentName(rec.agent)),
                   !.agent_actions = @ + 1]
    ELSE m

\* pr: parsed_response as movement tracking decodes it; anything that is not
\* a mapping or a JSON-encoded mapping counts as {}.
MoveOf(pr) == IF pr.form \in {"dict", "str"} THEN pr.move ELSE NoMove

\* loc = pr.get('move'), then one level of unnesting
Location(mv) ==
    CASE mv.t = "str" -> PyStr(mv.s)
      [] mv.t = "dict" -> PyOr(mv.inner, mv.first)
      [] OTHER -> PyNone

\* if 'parsed_response' in rec and 'agent' in rec: ...
MovementTracking(m, rec) ==
    IF rec.pr.form # "absent" /\ rec.agent.form # "absent"
    THEN LET agent_name == AgentName(rec.agent)
             loc == Location(MoveOf(rec.pr))
             seen == IF agent_name \in DOMAIN m.agent_visits
                     THEN m.agent_visits[agent_name] ELSE EmptyMap
         IN  IF loc.t = "str"
             THEN [m EXCEPT !.agent_visits =
                      (agent_name :> Incr(seen, loc.s)) @@ @]
             ELSE m
    ELSE m

\* 'communicate' in parsed_data, parsed_data being parsed_response decoded
HasCommunicate(pr) == pr.form \in {"dict", "str"} /\ pr.comm.t # "absent"

RECURSIVE CountTargets(_, _, _)
CountTargets(d, initiator, targets) ==
    IF targets = <<>> THEN d
    ELSE CountTargets(Incr(d, initiator \o "->" \o Head(targets)), initiator, Tail(targets))

\* if 'parsed_response' in rec: ... if 'communicate' in parsed_data: ...
CommunicationTracking(m, rec) ==
    IF ~HasCommunicate(rec.pr) THEN Ok(m)
    ELSE IF "communication_attempts" \notin DOMAIN m THEN Raise(m, "KeyError")
    ELSE LET comm_event == [time |-> IF rec.hasTime THEN rec.time ELSE 0,
                            agent |-> rec.agent,
                            targets |-> rec.pr.comm.targets]
             m1 == [m EXCEPT !.communication_attempts = @ + 1,
                             !.total_communications = @ + 1,
                             !.communication_events = Append(@, comm_event)]
             initiator == IF rec.agent.role.t = "none" THEN "unknown"
                          ELSE Fmt(rec.agent.role)
         IN  IF rec.agent.form = "str" THEN Raise(m1, "AttributeError")
             ELSE IF rec.pr.comm.t \notin {"list", "str"} \/ rec.pr.comm.targets = <<>>
                  THEN Ok(m1)
             ELSE IF "agent_interactions" \notin DOMAIN m1 THEN Raise(m1, "KeyError")
             ELSE Ok([m1 EXCEPT !.agent_interactions =
                                   CountTargets(@, initiator, rec.pr.comm.targets)])

\* 'communication' in str(ar).lower() or 'communicate' in reason.lower()
CommunicationRelated(ar) ==
    ar.reason \in {"communicate ok", "communication failed"}

\* if 'action_result' in rec: ...
OutcomeTracking(m, rec) ==
    IF rec.ar.form = "dict" /\ CommunicationRelated(rec.ar)
    THEN IF rec.ar.success
         THEN IF "communication_successes" \in DOMAIN m
              THEN Ok([m EXCEPT !.communication_successes = @ + 1])
              ELSE Raise(m, "KeyError")
         ELSE IF "communication_failures" \in DOMAIN m
              THEN Ok([m EXCEPT !.communication_failures = @ + 1])
              ELSE Raise(m, "KeyError")
    ELSE Ok(m)

\* if 'time' in rec and rec['time'] > 0: ...
Completion(m, rec) ==
    IF rec.hasTime /\ rec.time > 0
    THEN [m EXCEPT !.simulation_completed = TRUE]
    ELSE m

\* The body of the loop for one decoded record.
ProcessRecord(m, rec) ==
    LET m4 == MovementTracking(
                  ActionTracking(
                      WorldStateTracking(TimeTracking(m, rec), rec), rec), rec)
        c == CommunicationTracking(m4, rec)
    IN  IF c.exc # "" THEN c
        ELSE LET o == OutcomeTracking(c.m, rec)
             IN  IF o.exc # "" THEN o ELSE Ok(Completion(o.m, rec))

ProcessLineAbortsOnBadJson(m, line) ==
    IF Strip(line).kind = "empty" THEN Ok(m)
    ELSE IF line.kind = "malformed" THEN Raise(m, "JSONDecodeError")
    ELSE ProcessRecord(m, line.rec)

\* The body of the loop for one line of the file.
ProcessLine(m, line) ==
    IF Strip(line).kind = "empty" THEN Ok(m)
    ELSE IF line.kind = "malformed" THEN Ok(m)
    ELSE ProcessRecord(m, line.rec)

\* What follows the loop: the derived fields, then return.
PostScan(m) ==
    LET m1 == [unique_rooms_count |-> Cardinality(m.unique_rooms_visited)] @@ m
    IN  IF "communication_attempts" \notin DOMAIN m1 THEN Raise(m1, "KeyError")
        ELSE LET m2 == IF m1.communication_attempts > 0
                       THEN [communication_success_rate |->
                                <<m1.communication_successes, m1.communication_attempts>>] @@ m1
                       ELSE m1
                 num_agents == Cardinality(DOMAIN m2.agent_steps)
             IN  IF num_agents > 0
                 THEN Ok([communication_attempts_per_agent |->
                              <<m2.communication_attempts, num_agents>>,
                          communication_successes_per_agent |->
                              <<m2.communication_successes, num_agents>>,
                          communication_failures_per_agent |->
                              <<m2.communication_failures, num_agents>>,
                          total_communications_per_agent |->
                              <<m2.total_communications, num_agents>>] @@ m2)
                 ELSE Ok(m2)

\* What analyze_file hands back: None, a snapshot, or an exception that
\* leaves it.
Pending == [kind |-> "pending", exc |-> "", snap |-> <<>>]
ReturnNone == [kind |-> "none", exc |-> "", snap |-> <<>>]
Return(m) == [kind |-> "snapshot", exc |-> "", snap |-> <<m>>]
Escapes(e) == [kind |-> "raise", exc |-> e, snap |-> <<>>]

\* return metrics, or the exception PostScan raised (nothing catches it)
Finish(m) ==
    LET p == PostScan(m)
    IN  IF p.exc # "" THEN Escapes(p.exc) ELSE Return(p.m)

\* The whole for-loop over the lines of an open file.
RECURSIVE ScanLines(_, _)
ScanLines(m, lines) ==
    IF lines = <<>> THEN Ok(m)
    ELSE LET o == ProcessLine(m, Head(lines))
         IN  IF o.exc # "" THEN o ELSE ScanLines(o.m, Tail(lines))

\* A log file: whether open() and the reads succeed, and its lines.
File(lines) == [openable |-> TRUE, lines |-> lines]
Unopenable == [openable |-> FALSE, lines |-> <<>>]

\* analyze_file(filepath) as one call.
analyze_file(file) ==
    IF ~file.openable THEN ReturnNone
    ELSE LET s == ScanLines(Metrics0, file.lines)
         IN  IF s.exc # "" THEN ReturnNone ELSE Finish(s.m)

\* ---- analyze_file, step by step
\* open(filepath) fails: caught by the except clause, None is returned
OpenFails ==
    /\ pc = "open"
    /\ pc' = "open_failed"
    /\ result' = ReturnNone
    /\ UNCHANGED <<read, metrics, sweep_vars>>

OpenFile ==
    /\ pc = "open"
    /\ pc' = "scan"
    /\ UNCHANGED <<read, metrics, result, sweep_vars>>

\* one turn of the loop; an exception ends the scan and None is returned
ReadLine ==
    /\ pc = "scan"
    /\ Len(read) < MaxLines
    /\ \E line \in Lines :
          LET o == ProcessLine(metrics, line)
          IN  /\ read' = Append(read, line)
              /\ metrics' = o.m
              /\ pc' = IF o.exc # "" THEN "scan_raised" ELSE "scan"
              /\ result' = IF o.exc # "" THEN ReturnNone ELSE result
    /\ UNCHANGED sweep_vars

\* the file object fails while being read (an I/O or decoding error)
ReadFails ==
    /\ pc = "scan"
    /\ pc' = "read_failed"
    /\ result' = ReturnNone
    /\ UNCHANGED <<read, metrics, sweep_vars>>

\* the end of the file: the derived fields and the return
EndOfFile ==
    /\ pc = "scan"
    /\ pc' = "finished"
    /\ metrics' = PostScan(metrics).m
    /\ result' = Finish(metrics)
    /\ UNCHANGED <<read, sweep_vars>>

\* ------------------------------------------------- analyze_all_files
complexity_levels == <<"EasyMap", "MediumMap", "HardMap">>
agent_counts == <<"TwoAgents", "ThreeAgents", "FourAgents", "FiveAgents">>

\* complexity.replace('Map', ' Complexity')
complexity_display(c) ==
    CASE c = "EasyMap" -> "Easy Complexity"
      [] c = "MediumMap" -> "Medium Complexity"
      [] c = "HardMap" -> "Hard Complexity"

\* agent_count.replace('Agents', ' Agents')
agent_count_display(a) ==
    CASE a = "TwoAgents" -> "Two Agents"
      [] a = "ThreeAgents" -> "Three Agents"
      [] a = "FourAgents" -> "Four Agents"
      [] a = "FiveAgents" -> "Five Agents"

Levels == 1..Len(complexity_levels)
Buckets == 1..Len(agent_counts)
Cells == Levels \X Buckets

\* The directory tree as far as the sweep has looked at it: for each path,
\* whether exists() said yes, and for a cell how many *.json files glob gave.
Fsys0 == [levels |-> [l \in Levels |-> "unseen"],
          cells |-> [c \in Cells |-> [dir |-> "unseen", nfiles |-> 0]]]

DirsFound(fs) ==
    Cardinality({l \in Levels : fs.levels[l] = "present"})
      + Cardinality({c \in Cells : fs.cells[c].dir = "present"})

\* The log files a cell directory may hold.
SampleFiles ==
    {Unopenable,
     File(<<>>),
     File(<<Line("malformed", Rec0), Line("json", [Rec0 EXCEPT !.hasTime = TRUE, !.time = 2])>>),
     File(<<Line("json", CommRec)>>)}

RECURSIVE SeqsUpTo(_, _)
SeqsUpTo(S, n) ==
    IF n = 0 THEN {<<>>}
    ELSE LET shorter == SeqsUpTo(S, n - 1)
         IN  shorter \cup {Append(q, x) : q \in shorter, x \in S}

\* if not complexity_path.exists(): continue
ComplexityMissing ==
    /\ sweep_pc = "complexity"
    /\ ci \in Levels
    /\ fsys' = [fsys EXCEPT !.levels[ci] = "missing"]
    /\ ci' = ci + 1
    /\ UNCHANGED <<sweep_pc, ai, todo, results, aggregate_results, scan_vars>>

\* self.results[complexity_display] = {}
ComplexityFound ==
    /\ sweep_pc = "complexity"
    /\ ci \in Levels
    /\ DirsFound(fsys) < MaxDirs
    /\ fsys' = [fsys EXCEPT !.levels[ci] = "present"]
    /\ results' = (complexity_display(complexity_levels[ci]) :> EmptyMap) @@ results
    /\ ai' = 1
    /\ sweep_pc' = "agent"
    /\ UNCHANGED <<ci, todo, aggregate_results, scan_vars>>

\* if not agent_path.exists(): continue
AgentDirMissing ==
    /\ sweep_pc = "agent"
    /\ ai \in Buckets
    /\ fsys' = [fsys EXCEPT !.cells[<<ci, ai>>].dir = "missing"]
    /\ ai' = ai + 1
    /\ UNCHANGED <<sweep_pc, ci, todo, results, aggregate_results, scan_vars>>

\* self.results[complexity_display][agent_count_display] = [];
\* json_files = list(agent_path.glob("*.json"))
AgentDirFound ==
    /\ sweep_pc = "agent"
    /\ ai \in Buckets
    /\ DirsFound(fsys) < MaxDirs
    /\ \E json_files \in SeqsUpTo(SampleFiles, MaxFiles) :
          /\ fsys' = [fsys EXCEPT !.cells[<<ci, ai>>] =
                                     [dir |-> "present", nfiles |-> Len(json_files)]]
          /\ todo' = json_files
    /\ results' = [results EXCEPT ![complexity_display(complexity_levels[ci])] =
                      (agent_count_display(agent_counts[ai]) :> <<>>) @@ @]
    /\ sweep_pc' = "files"
    /\ UNCHANGED <<ci, ai, aggregate_results, scan_vars>>

\* the tags the Collector puts on a snapshot before storing it
Tagged(m, l, b, k) ==
    [file_path |-> <<complexity_levels[l], agent_counts[b], k>>,
     complexity |-> complexity_display(complexity_levels[l]),
     agent_count |-> agent_count_display(agent_counts[b]),
     num_agents |-> Cardinality(DOMAIN m.agent_steps)] @@ m

\* one turn of: for json_file in json_files
AnalyzeNextFile ==
    /\ sweep_pc = "files"
    /\ todo # <<>>
    /\ LET r == analyze_file(Head(todo))
           cd == complexity_display(complexity_levels[ci])
           ad == agent_count_display(agent_counts[ai])
           k == fsys.cells[<<ci, ai>>].nfiles - Len(todo) + 1
       IN  CASE r.kind = "raise" ->
                  /\ sweep_pc' = "sweep_raised"
                  /\ UNCHANGED <<todo, results>>
             [] r.kind = "snapshot" ->
                  /\ results' = [results EXCEPT ![cd][ad] =
                                    Append(@, Tagged(r.snap[1], ci, ai, k))]
                  /\ todo' = Tail(todo)
                  /\ UNCHANGED sweep_pc
             [] r.kind = "none" ->
                  /\ todo' = Tail(todo)
                  /\ UNCHANGED <<sweep_pc, results>>
    /\ UNCHANGED <<fsys, ci, ai, aggregate_results, scan_vars>>

\* the files of the cell are exhausted
FilesDone ==
    /\ sweep_pc = "files"
    /\ todo = <<>>
    /\ ai' = ai + 1
    /\ sweep_pc' = "agent"
    /\ UNCHANGED <<fsys, ci, todo, results, aggregate_results, scan_vars>>

\* the agent_counts of the complexity level are exhausted
BucketsDone ==
    /\ sweep_pc = "agent"
    /\ ai \notin Buckets
    /\ ci' = ci + 1
    /\ sweep_pc' = "complexity"
    /\ UNCHANGED <<fsys, ai, todo, results, aggregate_results, scan_vars>>

\* analyze_all_files returns
SweepDone ==
    /\ sweep_pc = "complexity"
    /\ ci \notin Levels
    /\ sweep_pc' = "swept"
    /\ UNCHANGED <<fsys, ci, ai, todo, results, aggregate_results, scan_vars>>

\* ------------------------------------------ calculate_aggregate_metrics
\* np.mean / np.std of a list, kept as the statistic of that sample
np_mean(xs) == [mean_of |-> xs]
np_std(xs) == [std_of |-> xs]

Column(runs, f) == [j \in 1..Len(runs) |-> runs[j][f]]

\* the snapshot fields one Aggregate Row reads
AggregateReads ==
    {"total_steps", "total_rescues", "unique_rooms_count", "final_time",
     "total_communications", "communication_attempts_per_agent"}

avg_metrics(complexity, agent_count, runs) ==
    [complexity |-> complexity,
     agent_count |-> agent_count,
     num_runs |-> Len(runs),
     avg_total_steps |-> np_mean(Column(runs, "total_steps")),
     avg_total_rescues |-> np_mean(Column(runs, "total_rescues")),
     avg_unique_rooms |-> np_mean(Column(runs, "unique_rooms_count")),
     avg_simulation_time |-> np_mean(Column(runs, "final_time")),
     avg_total_communications |-> np_mean(Column(runs, "total_communications")),
     avg_communication_attempts_per_agent |->
         np_mean(Column(runs, "communication_attempts_per_agent")),
     std_total_steps |-> np_std(Column(runs, "total_steps")),
     std_total_rescues |-> np_std(Column(runs, "total_rescues")),
     std_unique_rooms |-> np_std(Column(runs, "unique_rooms_count")),
     std_simulation_time |-> np_std(Column(runs, "final_time")),
     std_total_communications |-> np_std(Column(runs, "total_communications"))]

SkipNoCell(runs) == FALSE

\* if not runs: continue
SkipCell(runs) == runs = <<>>

\* The cells in the order the two dicts hold them (the order of insertion).
GridOrder == [n \in 1..Cardinality(Cells) |->
                 <<((n - 1) \div Len(agent_counts)) + 1, ((n - 1) % Len(agent_counts)) + 1>>]

Stored(res, cell) ==
    LET cd == complexity_display(complexity_levels[cell[1]])
        ad == agent_count_display(agent_counts[cell[2]])
    IN  cd \in DOMAIN res /\ ad \in DOMAIN res[cd]

RunsOf(res, cell) ==
    res[complexity_display(complexity_levels[cell[1]])]
       [agent_count_display(agent_counts[cell[2]])]

\* The two nested loops from the n-th cell on; rows is aggregate_results.
RECURSIVE AggregateFrom(_, _, _)
AggregateFrom(res, n, rows) ==
    IF n > Len(GridOrder) THEN [rows |-> rows, exc |-> ""]
    ELSE LET cell == GridOrder[n]
         IN  IF ~Stored(res, cell) \/ SkipCell(RunsOf(res, cell))
             THEN AggregateFrom(res, n + 1, rows)
             ELSE LET runs == RunsOf(res, cell)
                  IN  IF \E j \in 1..Len(runs) : ~(AggregateReads \subseteq DOMAIN runs[j])
                      THEN [rows |-> rows, exc |-> "KeyError"]
                      ELSE AggregateFrom(res, n + 1,
                              Append(rows,
                                     avg_metrics(complexity_display(complexity_levels[cell[1]]),
                                                 agent_count_display(agent_counts[cell[2]]),
                                                 runs)))

calculate_aggregate_metrics(res) == AggregateFrom(res, 1, <<>>)

\* calculate_aggregate_metrics(), called once the sweep has returned
Aggregate ==
    /\ sweep_pc = "swept"
    /\ LET a == calculate_aggregate_metrics(results)
       IN  /\ aggregate_results' = a.rows
           /\ sweep_pc' = IF a.exc # "" THEN "aggregate_raised" ELSE "aggregated"
    /\ UNCHANGED <<fsys, ci, ai, todo, results, scan_vars>>

\* ------------------------------------------------------ specifications
ScanIdle ==
    /\ pc = "idle" /\ read = <<>> /\ metrics = Metrics0 /\ result = Pending
SweepIdle ==
    /\ fsys = Fsys0 /\ sweep_pc = "idle" /\ ci = 1 /\ ai = 1 /\ todo = <<>>
    /\ results = EmptyMap /\ aggregate_results = <<>>

\* analyze_file has built its accumulator and is about to open the file
Init ==
    /\ pc = "open" /\ read = <<>> /\ metrics = Metrics0 /\ result = Pending
    /\ SweepIdle

Next == OpenFails \/ OpenFile \/ ReadLine \/ ReadFails \/ EndOfFile

Spec == Init /\ [][Next]_vars

\* StressTestAnalyzer() has been built and analyze_all_files is entered
SweepInit ==
    /\ fsys = Fsys0 /\ sweep_pc = "complexity" /\ ci = 1 /\ ai = 1 /\ todo = <<>>
    /\ results = EmptyMap /\ aggregate_results = <<>>
    /\ ScanIdle

SweepNext ==
    \/ ComplexityMissing \/ ComplexityFound \/ AgentDirMissing \/ AgentDirFound
    \/ AnalyzeNextFile \/ FilesDone \/ BucketsDone \/ SweepDone \/ Aggregate

SweepSpec == SweepInit /\ [][SweepNext]_vars

\* ------------------------------------------------------------ claims
\* the records of the lines read so far that decoded, in order
RECURSIVE Decoded(_)
Decoded(lines) ==
    IF lines = <<>> THEN <<>>
    ELSE IF Head(lines).kind = "json" THEN <<Head(lines).rec>> \o Decoded(Tail(lines))
    ELSE Decoded(Tail(lines))

NoValidLines == \A j \in 1..Len(read) : read[j].kind # "json"

PositiveTimes ==
    {read[j].rec.time : j \in {n \in 1..Len(read) :
        read[n].kind = "json" /\ read[n].rec.hasTime /\ read[n].rec.time > 0}}

Greatest(S) == IF S = {} THEN 0 ELSE CHOOSE x \in S : \A y \in S : x >= y

RECURSIVE SumValues(_)
SumValues(d) ==
    IF DOMAIN d = {} THEN 0
    ELSE LET k == CHOOSE x \in DOMAIN d : TRUE
         IN  d[k] + SumValues([x \in DOMAIN d \ {k} |-> d[x]])

IsAction(line) == line.kind = "json" /\ line.rec.agent.form # "absent" /\ line.rec.hasCommand
IsVisit(line) ==
    /\ line.kind = "json" /\ line.rec.agent.form # "absent" /\ line.rec.pr.form # "absent"
    /\ Location(MoveOf(line.rec.pr)).t = "str"

\* C1: the sweep followed by the aggregation always runs to completion: no
\* exception leaves analyze_file, analyze_all_files or
\* calculate_aggregate_metrics, whatever the cell directories hold.
C1_SweepCompletes == sweep_pc \notin {"sweep_raised", "aggregate_raised"}

\* C2: a file that opens and holds no valid line (empty, blank lines, lines
\* that are not JSON) yields a snapshot with total_steps, total_rescues and
\* unique_rooms_count 0, empty agent_steps and agent_visits, and no
\* communication_success_rate.
C2_EmptyRunSnapshot ==
    (pc = "finished" /\ NoValidLines) =>
        /\ result.kind = "snapshot"
        /\ result.snap[1].total_steps = 0
        /\ result.snap[1].total_rescues = 0
        /\ result.snap[1].unique_rooms_count = 0
        /\ DOMAIN result.snap[1].agent_steps = {}
        /\ DOMAIN result.snap[1].agent_visits = {}
        /\ "communication_success_rate" \notin DOMAIN result.snap[1]

\* C3: whatever was scanned, in whatever order, final_time is the greatest
\* time among the records read whose time is > 0, and 0 when there is none.
C3_FinalTimeIsMax == metrics.final_time = Greatest(PositiveTimes)

C3_Witness ==
    /\ pc = "finished"
    /\ Len(read) = 3
    /\ \A j \in 1..3 : read[j].kind = "json" /\ read[j].rec.hasTime
    /\ read[1].rec.time = 2 /\ read[2].rec.time = 3 /\ read[3].rec.time = 1
    /\ metrics.final_time = 3

\* C4: at every point of a scan total_steps equals final_time.
C4_TotalStepsTracksFinalTime == metrics.total_steps = metrics.final_time

\* C5: the record that carries a communicate list from the agent of role
\* scout is counted (communication_attempts and agent_interactions["scout->r2"]
\* go up by one for it and the scan goes on), and a scan that ends after one
\* such attempt and one successful communication outcome returns a snapshot
\* whose communication_success_rate is 1/1.
C5_CommunicationCounted ==
    /\ (read # <<>> /\ read[Len(read)] = Line("json", CommRec)) =>
          /\ pc # "scan_raised"
          /\ "communication_attempts" \in DOMAIN metrics
          /\ "agent_interactions" \in DOMAIN metrics
          /\ metrics.communication_attempts =
                Cardinality({j \in 1..Len(read) : read[j] = Line("json", CommRec)})
          /\ "scout->r2" \in DOMAIN metrics.agent_interactions
    /\ (pc = "finished" /\ read = <<Line("json", CommRec), Line("json", OutcomeRec)>>) =>
          /\ result.kind = "snapshot"
          /\ "communication_success_rate" \in DOMAIN result.snap[1]
          /\ result.snap[1].communication_success_rate = <<1, 1>>

\* C6: every scan that reaches the end of its file returns a snapshot that
\* holds each field calculate_aggregate_metrics reads, runs without agent
\* action records included.
C6_AggregateFieldsPresent ==
    pc = "finished" =>
        /\ result.kind = "snapshot"
        /\ AggregateReads \subseteq DOMAIN result.snap[1]

\* C7: empty, whitespace-only and undecodable lines change nothing and do
\* not end the scan: at every point the accumulator is the one that the
\* decoded records alone give, and the scan has stopped on an exception
\* exactly when one of those records raises it.
RECURSIVE FoldRecords(_, _)
FoldRecords(m, recs) ==
    IF recs = <<>> THEN Ok(m)
    ELSE LET o == ProcessRecord(m, Head(recs))
         IN  IF o.exc # "" THEN o ELSE FoldRecords(o.m, Tail(recs))

C7_SkippedLinesLeaveNoTrace ==
    pc \in {"scan", "scan_raised"} =>
        LET f == FoldRecords(Metrics0, Decoded(read))
        IN  /\ metrics = f.m
            /\ (pc = "scan_raised") = (f.exc # "")

C7_Witness ==
    /\ pc = "scan"
    /\ Len(read) = 3
    /\ read[1].kind = "malformed"
    /\ read[2].kind = "space"
    /\ read[3].kind = "json" /\ read[3].rec.hasTime
    /\ metrics.final_time = 2

\* C8: once the aggregation has run there is exactly one Aggregate Row for
\* each cell with at least one stored snapshot, its num_runs the number of
\* snapshots stored, and no row for a cell whose directory is missing, holds
\* no log file, or whose files all gave no snapshot.
RowsFor(cell) ==
    {n \in 1..Len(aggregate_results) :
        /\ aggregate_results[n].complexity = complexity_display(complexity_levels[cell[1]])
        /\ aggregate_results[n].agent_count = agent_count_display(agent_counts[cell[2]])}

StoredCount(cell) == IF Stored(results, cell) THEN Len(RunsOf(results, cell)) ELSE 0

ClaimedIdentity(af) ==
    IF af.form = "dict"
    THEN IF af.name.t # "none" THEN Fmt(af.name) ELSE "agent_" \o Fmt(af.entity_id)
    ELSE af.bare

C9_IdentityResolution ==
    /\ DOMAIN metrics.agent_steps =
          {ClaimedIdentity(read[j].rec.agent) : j \in {n \in 1..Len(read) : IsAction(read[n])}}
    /\ DOMAIN metrics.agent_visits =
          {ClaimedIdentity(read[j].rec.agent) : j \in {n \in 1..Len(read) : IsVisit(read[n])}}

\* C10: at every point of the scan agent_actions is the sum of agent_steps
\* over all identities, and both are the number of records read that carry
\* an agent field and a command field.
C10_ActionsCounted ==
    /\ metrics.agent_actions = SumValues(metrics.agent_steps)
    /\ metrics.agent_actions = Cardinality({j \in 1..Len(read) : IsAction(read[j])})

C10_Witness ==
    /\ pc = "scan"
    /\ Len(read) = 3
    /\ read[1] = Line("json", [Rec0 EXCEPT !.agent = Bob])
    /\ read[2] = Line("json", [Rec0 EXCEPT !.hasCommand = TRUE])
    /\ IsAction(read[3])
    /\ metrics.agent_actions = 1

====
